---- MODULE Spec2Model ----
(***************************************************************************)
(* A model of lib/spack/spack/patch.py: the Patch class (construction,     *)
(* the file_hash property, apply), the two acquisition context managers    *)
(* get_url / get_file and the module-level file_hash function.             *)
(*                                                                         *)
(* Python values are tagged records [t |-> type name, v |-> payload];      *)
(* strings are sequences of one-character strings so that substring tests  *)
(* and joins are computed.  Every call is one action; the effects a call   *)
(* performs, in order, are recorded as the events of that call.            *)
(***************************************************************************)
EXTENDS Integers, Sequences, FiniteSets, TLC

\* ---------------------------------------------------------------- bounds
\* Longest patch specifier (in characters) the callers pass.
MaxSpecLen == 4
\* Largest strip level the callers pass.
MaxLevel == 10
\* Digest computations on one Patch are counted up to this number.
MaxDigests == 2

\* ------------------------------------------------------- Python values
PyNone == [t |-> "NoneType", v |-> <<>>]
PyStr(s) == [t |-> "str", v |-> s]
PyInt(n) == [t |-> "int", v |-> n]
PyFloat(n, d) == [t |-> "float", v |-> <<n, d>>]

\* Python truth value testing, as used by `if not self._file_hash` and
\* `if self.url`.
Truthy(x) ==
    CASE x.t = "NoneType" -> FALSE
      [] x.t = "str" -> Len(x.v) > 0
      [] x.t = "int" -> x.v # 0
      [] OTHER -> TRUE

\* isinstance(x, int)
IsInstanceInt(x) == x.t = "int"

\* `sub in s` on strings.
Contains(s, sub) ==
    \E i \in 1..(Len(s) - Len(sub) + 1) : SubSeq(s, i, i + Len(sub) - 1) = sub

Digit == <<"0", "1", "2", "3", "4", "5", "6", "7", "8", "9">>

\* str(n) for a non-negative int: its decimal digits.
RECURSIVE Str(_)
Str(n) == IF n < 10 THEN <<Digit[n + 1]>> ELSE Str(n \div 10) \o <<Digit[(n % 10) + 1]>>

\* ----------------------------------------------------------- exceptions
NoError == [type |-> "None", args |-> <<>>]
Error(type, args) == [type |-> type, args |-> args]

\* An event: one effect a call performs on a collaborator.
Event(ev, arg) == [ev |-> ev, arg |-> arg]

\* The body of a `with` block is entered (the context manager has yielded)
\* or left (its __exit__ has run).
Scope(ev) == Event(ev, <<>>)

\* ------------------------------------------------------------ the world
Chars == {"a", ":", "/"}
RECURSIVE StringsUpTo(_)
StringsUpTo(n) ==
    IF n = 0 THEN {<<>>}
    ELSE LET S == StringsUpTo(n - 1)
         IN  S \cup {Append(s, c) : s \in {x \in S : Len(x) = n - 1}, c \in Chars}

\* The patch specifiers callers pass (non-empty strings).
Specifiers == StringsUpTo(MaxSpecLen) \ {<<>>}

\* The packages that own patches.
Pkgs == {[name |-> <<"f">>], [name |-> <<"b">>]}

\* The levels callers pass: ints (negative ones too), a float, a string, None.
Levels ==
    {PyInt(n) : n \in -2..MaxLevel} \cup {PyFloat(1, 5), PyStr(<<"1">>), PyNone}

\* The raw bytes a patch file may hold (b"" and b"A").
Contents == {<<>>, <<"A">>}

\* spack.repo.dirname_for_package_name
dirname_for_package_name(pkg_name) == <<"/">> \o pkg_name

\* llnl.util.filesystem.join_path: os.path.join of a directory and one name.
join_path(dir, name) ==
    IF name # <<>> /\ name[1] = "/" THEN name
    ELSE IF dir = <<>> \/ dir[Len(dir)] = "/" THEN dir \o name
    ELSE dir \o <<"/">> \o name

\* The regular files that may exist: a patch file "a" in each package directory.
PatchFiles == {join_path(dirname_for_package_name(p.name), <<"a">>) : p \in Pkgs}

\* os.path.isfile on a file system fs (a function from the existing regular
\* files to their bytes).
isfile(fs, path) == path \in DOMAIN fs

\* base64.b32encode(hashlib.md5(content).digest()) for the contents above.
b32encode_md5(content) ==
    IF content = <<>>
    THEN   <<"2","Q","O","Y","Z","W","M","P">>
        \o <<"A","C","Z","A","J","2","M","A">>
        \o <<"B","G","M","O","Z","6","C","C">>
        \o <<"P","Y","=","=","=","=","=","=">>
    ELSE   <<"P","7","C","W","E","4","H","H">>
        \o <<"U","4","H","2","Q","G","S","Z">>
        \o <<"G","W","3","S","5","L","F","6">>
        \o <<"F","E","=","=","=","=","=","=">>

LowerChar(c) ==
    CASE c = "A" -> "a" [] c = "B" -> "b" [] c = "C" -> "c" [] c = "D" -> "d"
      [] c = "E" -> "e" [] c = "F" -> "f" [] c = "G" -> "g" [] c = "H" -> "h"
      [] c = "I" -> "i" [] c = "J" -> "j" [] c = "K" -> "k" [] c = "L" -> "l"
      [] c = "M" -> "m" [] c = "N" -> "n" [] c = "O" -> "o" [] c = "P" -> "p"
      [] c = "Q" -> "q" [] c = "R" -> "r" [] c = "S" -> "s" [] c = "T" -> "t"
      [] c = "U" -> "u" [] c = "V" -> "v" [] c = "W" -> "w" [] c = "X" -> "x"
      [] c = "Y" -> "y" [] c = "Z" -> "z" [] OTHER -> c

\* str.lower
Lower(s) == [i \in DOMAIN s |-> LowerChar(s[i])]

\* ------------------------------------------------------- collaborators
\* The build stages a caller may hand to apply; each knows its source tree.
Stages == {[path |-> <<"/", "t">>, source_path |-> <<"/", "s">>]}

\* The directories the caller may be positioned in.
Dirs == {<<"/", "w">>, <<"/", "s">>}

\* spack.stage.Stage.chdir_to_source: moves the process into the stage's
\* expanded source tree.
chdir_to_source(stage) ==
    [cwd |-> stage.source_path, events |-> <<Event("chdir", <<stage.source_path>>)>>]

\* spack.util.executable.Executable.__call__ on the patch tool: runs the
\* tool with argv; a non-zero exit status raises ProcessError, which knows
\* the command line and the status and nothing else.
_patch(argv, status) ==
    [raised |-> IF status = 0 THEN NoError ELSE Error("ProcessError", <<argv, status>>),
     events |-> <<Event("_patch", <<argv, status>>)>>]

\* The exit statuses the external tool may report.
ExitStatuses == {0, 1}

\* What the network does to a fetch, were one made.
NetOutcomes == {"ok", "fail"}

Raised(r) == r.raised.type # "None"

\* ------------------------------------------------------------- patch.py
\* Patch.__init__ with the path resolved before the specifier is classified:
\* a URL patch gets a path as well.
Patch__init__resolves_first(pkg, path_or_url, level, fs) ==
    LET pkg_dir == dirname_for_package_name(pkg.name)
        path == join_path(pkg_dir, path_or_url)
        self0 == [t |-> "Patch", pkg_name |-> pkg.name, path_or_url |-> path_or_url,
                  path |-> PyStr(path), url |-> PyNone, level |-> level,
                  _file_hash |-> PyNone]
        ev == <<Event("dirname_for_package_name", <<pkg.name>>)>>
    IN  IF ~IsInstanceInt(level) \/ ~(level.v >= 0)
        THEN [raised |-> Error("ValueError",
                               <<"Patch level needs to be a non-negative integer.">>),
              self |-> self0, events |-> ev]
        ELSE IF Contains(path_or_url, <<":", "/", "/">>)
        THEN [raised |-> NoError, self |-> [self0 EXCEPT !.url = PyStr(path_or_url)],
              events |-> ev]
        ELSE IF ~isfile(fs, path)
        THEN [raised |-> Error("NameError", <<"pkg_name">>), self |-> self0,
              events |-> Append(ev, Event("isfile", <<path>>))]
        ELSE [raised |-> NoError, self |-> self0,
              events |-> Append(ev, Event("isfile", <<path>>))]

\* Patch.__init__ with the level test written `> 0`: level 0 is refused.
Patch__init__positive_level(pkg, path_or_url, level, fs) ==
    LET self0 == [t |-> "Patch", pkg_name |-> pkg.name, path_or_url |-> path_or_url,
                  path |-> PyNone, url |-> PyNone, level |-> level,
                  _file_hash |-> PyNone]
    IN  IF ~IsInstanceInt(level) \/ ~(level.v > 0)
        THEN [raised |-> Error("ValueError",
                               <<"Patch level needs to be a non-negative integer.">>),
              self |-> self0, events |-> <<>>]
        ELSE IF Contains(path_or_url, <<":", "/", "/">>)
        THEN [raised |-> NoError, self |-> [self0 EXCEPT !.url = PyStr(path_or_url)],
              events |-> <<>>]
        ELSE LET path == join_path(dirname_for_package_name(self0.pkg_name), path_or_url)
                 self1 == [self0 EXCEPT !.path = PyStr(path)]
                 ev == <<Event("dirname_for_package_name", <<self0.pkg_name>>),
                         Event("isfile", <<path>>)>>
             IN  IF ~isfile(fs, path)
                 THEN [raised |-> Error("NameError", <<"pkg_name">>),
                       self |-> self1, events |-> ev]
                 ELSE [raised |-> NoError, self |-> self1, events |-> ev]

\* Patch.__init__: the attributes are assigned first, then the level is
\* checked, then the specifier is classified.  The raise on a missing
\* local file names `pkg_name`, which is bound nowhere (the attribute is
\* self.pkg_name): evaluating it raises NameError before the
\* NoSuchPatchFileError is built.
Patch__init__(pkg, path_or_url, level, fs) ==
    LET self0 == [t |-> "Patch", pkg_name |-> pkg.name, path_or_url |-> path_or_url,
                  path |-> PyNone, url |-> PyNone, level |-> level,
                  _file_hash |-> PyNone]
    IN  IF ~IsInstanceInt(level) \/ ~(level.v >= 0)
        THEN [raised |-> Error("ValueError",
                               <<"Patch level needs to be a non-negative integer.">>),
              self |-> self0, events |-> <<>>]
        ELSE IF Contains(path_or_url, <<":", "/", "/">>)
        THEN [raised |-> NoError, self |-> [self0 EXCEPT !.url = PyStr(path_or_url)],
              events |-> <<>>]
        ELSE LET pkg_dir == dirname_for_package_name(self0.pkg_name)
                 path == join_path(pkg_dir, path_or_url)
                 self1 == [self0 EXCEPT !.path = PyStr(path)]
                 ev == <<Event("dirname_for_package_name", <<self0.pkg_name>>),
                         Event("isfile", <<path>>)>>
             IN  IF ~isfile(fs, path)
                 THEN [raised |-> Error("NameError", <<"pkg_name">>),
                       self |-> self1, events |-> ev]
                 ELSE [raised |-> NoError, self |-> self1, events |-> ev]

\* The module-level file_hash(path): open, read, md5, base32, lower.
file_hash(path, fs) ==
    IF ~isfile(fs, path.v)
    THEN [raised |-> Error("IOError", <<path.v>>), value |-> PyNone,
          events |-> <<Event("open", <<path.v>>)>>]
    ELSE [raised |-> NoError,
          value |-> PyStr(Lower(b32encode_md5(fs[path.v]))),
          events |-> <<Event("open", <<path.v>>), Event("read", <<path.v, fs[path.v]>>),
                       Event("md5", <<fs[path.v]>>)>>]

\* get_file(path): a context manager that yields the path; nothing on exit.
get_file(path) ==
    [raised |-> NoError, enter |-> <<>>, value |-> path, exit |-> <<>>]

\* get_url written without the inner `with` (and with `url` for `self.url`):
\* the Stage is made and fetched, and nothing destroys it.
get_url_leaks(url, net) ==
    [raised |-> IF net = "ok" THEN NoError ELSE Error("FetchError", <<url.v>>),
     enter |-> <<Event("Stage", <<url.v>>), Event("fetch", <<url.v>>)>>,
     value |-> PyStr(<<"/", "t">>),
     exit |-> <<>>]

\* get_url(url): the body's first expression is spack.stage.Stage(self.url),
\* and `self` is not bound in a module-level function: entering the context
\* raises NameError before any Stage is made, whatever the network would do.
get_url(url, net) ==
    [raised |-> Error("NameError", <<"self">>), enter |-> <<>>, value |-> PyNone,
     exit |-> <<>>]

\* get_patch with the two branches exchanged: a local Patch is sent to get_url.
Patch_get_patch_swapped(self, net) ==
    IF Truthy(self.path) THEN get_url(self.path, net) ELSE get_file(self.url)

\* Patch.get_patch: the context manager for this patch's content.
Patch_get_patch(self, net) ==
    IF Truthy(self.url) THEN get_url(self.url, net) ELSE get_file(self.path)

\* The file_hash property without the cache test: computed on every read.
Patch_file_hash_uncached(self, fs, net) ==
    LET cm == IF Truthy(self.url) THEN get_url(self.url, net) ELSE get_file(self.path)
        acq == <<Event("get_patch", <<>>)>> \o cm.enter
    IN  IF Raised(cm)
        THEN [self |-> self, raised |-> cm.raised, ret |-> PyNone, events |-> acq]
        ELSE LET h == file_hash(cm.value, fs)
             IN  IF Raised(h)
                 THEN [self |-> self, raised |-> h.raised, ret |-> PyNone,
                       events |-> acq \o <<Scope("__enter__")>> \o h.events \o cm.exit
                              \o <<Scope("__exit__")>>]
                 ELSE [self |-> [self EXCEPT !._file_hash = h.value],
                       raised |-> NoError, ret |-> h.value,
                       events |-> acq \o <<Scope("__enter__")>> \o h.events \o cm.exit
                              \o <<Scope("__exit__")>>]

\* The file_hash property of Patch.
Patch_file_hash(self, fs, net) ==
    IF ~Truthy(self._file_hash)
    THEN LET cm == Patch_get_patch(self, net)
             acq == <<Event("get_patch", <<>>)>> \o cm.enter
         IN  IF Raised(cm)
             THEN [self |-> self, raised |-> cm.raised, ret |-> PyNone, events |-> acq]
             ELSE LET h == file_hash(cm.value, fs)
                  IN  IF Raised(h)
                      THEN [self |-> self, raised |-> h.raised, ret |-> PyNone,
                            events |-> acq \o <<Scope("__enter__")>> \o h.events \o cm.exit
                              \o <<Scope("__exit__")>>]
                      ELSE [self |-> [self EXCEPT !._file_hash = h.value],
                            raised |-> NoError, ret |-> h.value,
                            events |-> acq \o <<Scope("__enter__")>> \o h.events \o cm.exit
                              \o <<Scope("__exit__")>>]
    ELSE [self |-> self, raised |-> NoError, ret |-> self._file_hash, events |-> <<>>]

\* The command line with the specifier as given in place of the acquired file.
PatchArgv_specifier(self, patch_file) ==
    << <<"-", "s">>, <<"-", "p">>, Str(self.level.v), <<"-", "i">>, self.path_or_url >>

\* The command line apply gives the patch tool.
PatchArgv(self, patch_file) ==
    << <<"-", "s">>, <<"-", "p">>, Str(self.level.v), <<"-", "i">>, patch_file.v >>

\* apply with the stage's own directory entered (stage.chdir()) in place of
\* its source tree.
Patch_apply_stage_dir(self, stage, fs, net, status) ==
    LET cd == [cwd |-> stage.path, events |-> <<Event("chdir", <<stage.path>>)>>]
        cm == Patch_get_patch(self, net)
        acq == cd.events \o <<Event("get_patch", <<>>)>> \o cm.enter
    IN  IF Raised(cm)
        THEN [self |-> self, raised |-> cm.raised, cwd |-> cd.cwd, events |-> acq]
        ELSE LET h == file_hash(cm.value, fs)
                 self1 == [self EXCEPT !._file_hash = h.value]
                 run == _patch(PatchArgv(self1, cm.value), status)
             IN  IF Raised(h)
                 THEN [self |-> self, raised |-> h.raised, cwd |-> cd.cwd,
                       events |-> acq \o <<Scope("__enter__")>> \o h.events \o cm.exit
                                  \o <<Scope("__exit__")>>]
                 ELSE [self |-> self1, raised |-> run.raised, cwd |-> cd.cwd,
                       events |-> acq \o <<Scope("__enter__")>> \o h.events
                                  \o run.events \o cm.exit \o <<Scope("__exit__")>>]

\* apply that keeps the level as the text it gave the tool
\* (self.level = str(self.level)).
Patch_apply_level_text(self, stage, fs, net, status) ==
    LET cd == chdir_to_source(stage)
        cm == Patch_get_patch(self, net)
        acq == cd.events \o <<Event("get_patch", <<>>)>> \o cm.enter
    IN  IF Raised(cm)
        THEN [self |-> self, raised |-> cm.raised, cwd |-> cd.cwd, events |-> acq]
        ELSE LET h == file_hash(cm.value, fs)
                 self1 == [self EXCEPT !._file_hash = h.value,
                                       !.level = PyStr(Str(self.level.v))]
                 run == _patch(PatchArgv(self, cm.value), status)
             IN  IF Raised(h)
                 THEN [self |-> self, raised |-> h.raised, cwd |-> cd.cwd,
                       events |-> acq \o <<Scope("__enter__")>> \o h.events \o cm.exit
                                  \o <<Scope("__exit__")>>]
                 ELSE [self |-> self1, raised |-> run.raised, cwd |-> cd.cwd,
                       events |-> acq \o <<Scope("__enter__")>> \o h.events
                                  \o run.events \o cm.exit \o <<Scope("__exit__")>>]

\* apply that hashes only when nothing is cached, as the property does.
Patch_apply_keeps_cache(self, stage, fs, net, status) ==
    LET cd == chdir_to_source(stage)
        cm == Patch_get_patch(self, net)
        acq == cd.events \o <<Event("get_patch", <<>>)>> \o cm.enter
    IN  IF Raised(cm)
        THEN [self |-> self, raised |-> cm.raised, cwd |-> cd.cwd, events |-> acq]
        ELSE LET h == IF Truthy(self._file_hash)
                      THEN [raised |-> NoError, value |-> self._file_hash, events |-> <<>>]
                      ELSE file_hash(cm.value, fs)
                 self1 == [self EXCEPT !._file_hash = h.value]
                 run == _patch(PatchArgv(self1, cm.value), status)
             IN  IF Raised(h)
                 THEN [self |-> self, raised |-> h.raised, cwd |-> cd.cwd,
                       events |-> acq \o <<Scope("__enter__")>> \o h.events \o cm.exit
                                  \o <<Scope("__exit__")>>]
                 ELSE [self |-> self1, raised |-> run.raised, cwd |-> cd.cwd,
                       events |-> acq \o <<Scope("__enter__")>> \o h.events
                                  \o run.events \o cm.exit \o <<Scope("__exit__")>>]

\* apply with the tool call dedented out of the `with` block: the tool is
\* given the path after the block has been left.
Patch_apply_tool_outside(self, stage, fs, net, status) ==
    LET cd == chdir_to_source(stage)
        cm == Patch_get_patch(self, net)
        acq == cd.events \o <<Event("get_patch", <<>>)>> \o cm.enter
    IN  IF Raised(cm)
        THEN [self |-> self, raised |-> cm.raised, cwd |-> cd.cwd, events |-> acq]
        ELSE LET h == file_hash(cm.value, fs)
                 self1 == [self EXCEPT !._file_hash = h.value]
                 run == _patch(PatchArgv(self1, cm.value), status)
             IN  IF Raised(h)
                 THEN [self |-> self, raised |-> h.raised, cwd |-> cd.cwd,
                       events |-> acq \o <<Scope("__enter__")>> \o h.events \o cm.exit
                                  \o <<Scope("__exit__")>>]
                 ELSE [self |-> self1, raised |-> run.raised, cwd |-> cd.cwd,
                       events |-> acq \o <<Scope("__enter__")>> \o h.events
                                  \o cm.exit \o <<Scope("__exit__")>> \o run.events]

\* apply with the two statements of the block exchanged: the tool runs
\* before the content is hashed.
Patch_apply_tool_first(self, stage, fs, net, status) ==
    LET cd == chdir_to_source(stage)
        cm == Patch_get_patch(self, net)
        acq == cd.events \o <<Event("get_patch", <<>>)>> \o cm.enter
    IN  IF Raised(cm)
        THEN [self |-> self, raised |-> cm.raised, cwd |-> cd.cwd, events |-> acq]
        ELSE LET run == _patch(PatchArgv(self, cm.value), status)
                 h == file_hash(cm.value, fs)
                 self1 == [self EXCEPT !._file_hash = h.value]
             IN  IF Raised(run)
                 THEN [self |-> self, raised |-> run.raised, cwd |-> cd.cwd,
                       events |-> acq \o <<Scope("__enter__")>> \o run.events \o cm.exit
                                  \o <<Scope("__exit__")>>]
                 ELSE [self |-> IF Raised(h) THEN self ELSE self1,
                       raised |-> h.raised, cwd |-> cd.cwd,
                       events |-> acq \o <<Scope("__enter__")>> \o run.events
                                  \o h.events \o cm.exit \o <<Scope("__exit__")>>]

\* apply that puts the old fingerprint back when the tool fails.
Patch_apply_rolls_back(self, stage, fs, net, status) ==
    LET cd == chdir_to_source(stage)
        cm == Patch_get_patch(self, net)
        acq == cd.events \o <<Event("get_patch", <<>>)>> \o cm.enter
    IN  IF Raised(cm)
        THEN [self |-> self, raised |-> cm.raised, cwd |-> cd.cwd, events |-> acq]
        ELSE LET h == file_hash(cm.value, fs)
                 self1 == [self EXCEPT !._file_hash = h.value]
                 run == _patch(PatchArgv(self1, cm.value), status)
             IN  IF Raised(h)
                 THEN [self |-> self, raised |-> h.raised, cwd |-> cd.cwd,
                       events |-> acq \o <<Scope("__enter__")>> \o h.events \o cm.exit
                                  \o <<Scope("__exit__")>>]
                 ELSE [self |-> IF Raised(run) THEN self ELSE self1,
                       raised |-> run.raised, cwd |-> cd.cwd,
                       events |-> acq \o <<Scope("__enter__")>> \o h.events
                                  \o run.events \o cm.exit \o <<Scope("__exit__")>>]

\* Patch.apply(stage).
Patch_apply(self, stage, fs, net, status) ==
    LET cd == chdir_to_source(stage)
        cm == Patch_get_patch(self, net)
        acq == cd.events \o <<Event("get_patch", <<>>)>> \o cm.enter
    IN  IF Raised(cm)
        THEN [self |-> self, raised |-> cm.raised, cwd |-> cd.cwd, events |-> acq]
        ELSE LET h == file_hash(cm.value, fs)
                 self1 == [self EXCEPT !._file_hash = h.value]
                 run == _patch(PatchArgv(self1, cm.value), status)
             IN  IF Raised(h)
                 THEN [self |-> self, raised |-> h.raised, cwd |-> cd.cwd,
                       events |-> acq \o <<Scope("__enter__")>> \o h.events \o cm.exit
                              \o <<Scope("__exit__")>>]
                 ELSE [self |-> self1, raised |-> run.raised, cwd |-> cd.cwd,
                       events |-> acq \o <<Scope("__enter__")>> \o h.events \o run.events \o cm.exit
                              \o <<Scope("__exit__")>>]

\* --------------------------------------------------------------- state
VARIABLES
    patch,   \* the Patch the last constructor call produced; None if it raised
    fs,      \* the regular files that exist, with their bytes
    cwd,     \* the process's working directory
    staged,  \* the URLs whose staging areas currently exist
    digests, \* how often the digest of the Patch's content has been computed
    call     \* the last call: operation, arguments (with what the network and
             \* the tool were going to answer), outcome and events

vars == <<patch, fs, cwd, staged, digests, call>>

\* The staging areas left after a call's events.
RECURSIVE StagedAfter(_, _)
StagedAfter(held, events) ==
    IF events = <<>> THEN held
    ELSE LET e == Head(events)
         IN  StagedAfter(IF e.ev = "Stage" THEN held \cup {e.arg[1]}
                         ELSE IF e.ev = "destroy" THEN held \ {e.arg[1]}
                         ELSE held,
                         Tail(events))

\* The digest computations counted up to MaxDigests: the count after a call.
DigestsAfter(n, events) ==
    LET m == n + Len(SelectSeq(events, LAMBDA e : e.ev = "md5"))
    IN  IF m > MaxDigests THEN MaxDigests ELSE m

Call(op, args, raised, ret, events) ==
    [op |-> op, args |-> args, raised |-> raised, ret |-> ret, events |-> events]

Init ==
    /\ patch = PyNone
    /\ fs = [p \in PatchFiles |-> <<"A">>]
    /\ cwd = <<"/", "w">>
    /\ staged = {}
    /\ digests = 0
    /\ call = Call("none", <<>>, NoError, PyNone, <<>>)

\* A caller constructs a Patch (package-recipe load time); the result does
\* not depend on any earlier Patch.
New ==
    /\ call.op = "none"
    /\ \E pkg \in Pkgs, path_or_url \in Specifiers, level \in Levels :
        LET r == Patch__init__(pkg, path_or_url, level, fs)
        IN  /\ patch' = IF Raised(r) THEN PyNone ELSE r.self
            /\ call' = Call("__init__", <<pkg, path_or_url, level>>, r.raised, PyNone,
                            r.events)
            /\ staged' = StagedAfter(staged, r.events)
            /\ digests' = DigestsAfter(0, r.events)
            /\ UNCHANGED <<fs, cwd>>

\* The build invocation ends: the Patch (or the failed construction) is
\* dropped and a new one may be constructed.
Discard ==
    /\ call.op # "none"
    /\ patch' = PyNone
    /\ call' = Call("none", <<>>, NoError, PyNone, <<>>)
    /\ digests' = 0
    /\ UNCHANGED <<fs, cwd, staged>>

\* A caller reads the file_hash property.
FileHash ==
    /\ patch.t = "Patch"
    /\ \E net \in NetOutcomes :
        LET r == Patch_file_hash(patch, fs, net)
        IN  /\ patch' = r.self
            /\ call' = Call("file_hash", <<net>>, r.raised, r.ret, r.events)
            /\ staged' = StagedAfter(staged, r.events)
            /\ digests' = DigestsAfter(digests, r.events)
            /\ UNCHANGED <<fs, cwd>>

\* A caller applies the patch to a stage.
Apply ==
    /\ patch.t = "Patch"
    /\ \E stage \in Stages, net \in NetOutcomes, status \in ExitStatuses :
        LET r == Patch_apply(patch, stage, fs, net, status)
        IN  /\ patch' = r.self
            /\ cwd' = r.cwd
            /\ call' = Call("apply", <<stage, net, status>>, r.raised, PyNone, r.events)
            /\ staged' = StagedAfter(staged, r.events)
            /\ digests' = DigestsAfter(digests, r.events)
            /\ UNCHANGED fs

\* The package directory changes under the program: a patch file is written.
WriteFile ==
    \E p \in PatchFiles, c \in Contents :
        /\ fs' = [q \in DOMAIN fs \cup {p} |-> IF q = p THEN c ELSE fs[q]]
        /\ UNCHANGED <<patch, cwd, staged, digests, call>>

\* ... or removed.
RemoveFile ==
    \E p \in DOMAIN fs :
        /\ fs' = [q \in DOMAIN fs \ {p} |-> fs[q]]
        /\ UNCHANGED <<patch, cwd, staged, digests, call>>

\* The caller positions the process before a call.
Chdir ==
    \E d \in Dirs :
        /\ cwd' = d
        /\ UNCHANGED <<patch, fs, staged, digests, call>>

Next == New \/ Discard \/ FileHash \/ Apply \/ WriteFile \/ RemoveFile \/ Chdir

Spec == Init /\ [][Next]_vars

\* ====================================================================
\* Properties
\* ====================================================================
IsPatch == patch.t = "Patch"
IsRemote == IsPatch /\ Truthy(patch.url)
IsLocal == IsPatch /\ ~Truthy(patch.url)
IsSet(x) == x.t # "NoneType"
ValidLevel(level) == level.t = "int" /\ level.v >= 0
IsUrlSpecifier(s) == Contains(s, <<":", "/", "/">>)
\* The events of the last call that are of the given kinds, in order.
EventsOf(kinds) == SelectSeq(call.events, LAMBDA e : e.ev \in kinds)
\* This step is a constructor call.
NewStep == call.op = "none" /\ call'.op = "__init__"
\* This step is a read of the file_hash property (or leaves everything as is).
FileHashStep == IsPatch /\ call'.op = "file_hash" /\ fs' = fs /\ cwd' = cwd
\* The full path a constructor call's local specifier resolves to.
ResolvedPath(args) == join_path(dirname_for_package_name(args[1].name), args[2])
\* The names the specification gives the errors the code lets out: the
\* level error of line 56, the error of the tool's non-zero exit, the
\* error of the staging collaborator's fetch.
InvalidPatchLevel == "ValueError"
PatchApplyError == "ProcessError"
PatchFetchError == "FetchError"

\* int(s) for a string of decimal digits.
DigitValue(c) == CHOOSE n \in 0..9 : Digit[n + 1] = c
RECURSIVE ParseInt(_)
ParseInt(s) ==
    IF Len(s) = 1 THEN DigitValue(s[1])
    ELSE 10 * ParseInt(SubSeq(s, 1, Len(s) - 1)) + DigitValue(s[Len(s)])

\* C1: in every state that holds a constructed Patch, whatever file_hash and
\* apply calls followed its construction, exactly one of path and url is set.
C1_ExactlyOneSource ==
    IsPatch => (IsSet(patch.path) /\ ~IsSet(patch.url)) \/ (~IsSet(patch.path) /\ IsSet(patch.url))

\* A local Patch on which apply has returned normally after its construction.
C1_Witness ==
    /\ IsPatch /\ IsSet(patch.path) /\ ~IsSet(patch.url)
    /\ call.op = "apply" /\ call.raised.type = "None"

\* C2: a constructor call whose local specifier names an existing file
\* succeeds when the level is a non-negative int, and raises the level error
\* (producing no Patch) when the level is negative or not an int.
C2_LevelDecidesConstruction ==
    [][(NewStep /\ ~IsUrlSpecifier(call'.args[2]) /\ isfile(fs, ResolvedPath(call'.args)))
        => IF ValidLevel(call'.args[3])
           THEN call'.raised.type = "None" /\ patch'.t = "Patch"
                /\ patch'.level = call'.args[3]
           ELSE call'.raised.type = InvalidPatchLevel /\ patch' = PyNone]_vars

\* A Patch constructed at level 0 from a local specifier.
C2_Witness ==
    /\ call.op = "__init__" /\ ~IsUrlSpecifier(call.args[2])
    /\ call.args[3] = PyInt(0) /\ call.raised.type = "None" /\ IsPatch

\* C3 (as claimed): a constructor call with a valid level and a local
\* specifier whose resolved path is not an existing file raises
\* NoSuchPatchFileError carrying the package name and the full path, and
\* produces no Patch.
C3_MissingFileRaisesNoSuchPatchFile ==
    [][(NewStep /\ ValidLevel(call'.args[3]) /\ ~IsUrlSpecifier(call'.args[2])
        /\ ~isfile(fs, ResolvedPath(call'.args)))
        => /\ call'.raised.type = "NoSuchPatchFileError"
           /\ call'.raised.args = <<call'.args[1].name, ResolvedPath(call'.args)>>
           /\ patch' = PyNone]_vars

\* C4: a constructor call with a valid level and a specifier containing
\* "://" succeeds, sets url to the specifier and leaves path unset, and does
\* so without a package-directory lookup, a file-existence check, a Stage, a
\* fetch or a read.
C4_UrlClassifiedWithoutIO ==
    (call.op = "__init__" /\ IsUrlSpecifier(call.args[2]) /\ ValidLevel(call.args[3]))
        => /\ call.raised.type = "None"
           /\ IsPatch
           /\ patch.url = PyStr(call.args[2])
           /\ ~IsSet(patch.path)
           /\ call.events = <<>>
           /\ staged = {}

\* A remote Patch just constructed from a specifier that is longer than "://".
C4_Witness ==
    /\ call.op = "__init__" /\ IsUrlSpecifier(call.args[2]) /\ Len(call.args[2]) > 3
    /\ IsPatch /\ IsSet(patch.url)

\* C5: when the last call was a file_hash read that returned a value, the
\* next file_hash read (nothing but changes of the files in between) returns
\* the same value, acquires nothing and reads nothing.
C5_CachedHashReturned ==
    [][(FileHashStep /\ call.op = "file_hash" /\ call.raised.type = "None")
        => /\ call'.raised.type = "None"
           /\ call'.ret = call.ret
           /\ call'.events = <<>>
           /\ patch' = patch]_vars

\* A file_hash read answered from the cache while the file now holds bytes
\* with another digest.
C5_Witness ==
    /\ IsLocal /\ call.op = "file_hash" /\ call.raised.type = "None"
    /\ call.events = <<>>
    /\ isfile(fs, patch.path.v)
    /\ call.ret # PyStr(Lower(b32encode_md5(fs[patch.path.v])))

C7_RemoteApplyFetchToolRelease ==
    (IsRemote /\ call.op = "apply" /\ call.args[2] = "ok" /\ call.args[3] = 0)
        => LET es == EventsOf({"fetch", "_patch", "destroy"})
           IN  /\ call.raised.type = "None"
               /\ Len(es) = 3
               /\ es[1].ev = "fetch"
               /\ es[2].ev = "_patch"
               /\ SubSeq(es[2].arg[1], 2, 3) = << <<"-", "p">>, Str(patch.level.v) >>
               /\ es[3].ev = "destroy"

\* C8 (as claimed): an apply whose tool invocation exits non-zero raises
\* PatchApplyError carrying the package name, the specifier, the level and
\* the exit status, having invoked the tool once.
C8_ToolFailureRaisesPatchApplyError ==
    (IsPatch /\ call.op = "apply"
     /\ \E i \in DOMAIN call.events :
            call.events[i].ev = "_patch" /\ call.events[i].arg[2] # 0)
        => /\ Len(EventsOf({"_patch"})) = 1
           /\ call.raised.type = PatchApplyError
           /\ Len(call.raised.args) = 4
           /\ call.raised.args = <<patch.pkg_name, patch.path_or_url, patch.level,
                                   EventsOf({"_patch"})[1].arg[2]>>

\* C9 (as claimed): a file_hash or apply call on a remote Patch whose
\* acquisition fails (the network refusing the fetch) raises PatchFetchError
\* carrying the URL, after at most one fetch and without invoking the tool.
C9_FetchFailureRaisesPatchFetchError ==
    (IsRemote /\ call.op \in {"file_hash", "apply"} /\ call.raised.type # "None"
     /\ EventsOf({"open"}) = <<>>
     /\ (IF call.op = "apply" THEN call.args[2] ELSE call.args[1]) = "fail")
        => /\ call.raised.type = PatchFetchError
           /\ call.raised.args[1] = patch.url.v
           /\ Len(EventsOf({"fetch"})) <= 1
           /\ EventsOf({"_patch"}) = <<>>

\* C10: every tool invocation of an apply call carries -s, then -p and the
\* decimal text of the Patch's level, then -i and the path that call's
\* acquisition yielded: the path the call opened for hashing, which for a
\* local Patch is the path resolved at construction.
C10_ToolArguments ==
    (IsPatch /\ call.op = "apply")
        => \A i \in DOMAIN call.events :
              call.events[i].ev = "_patch"
                  => LET argv == call.events[i].arg[1]
                         opened == EventsOf({"open"})
                     IN  /\ Len(argv) = 5
                         /\ argv[1] = <<"-", "s">>
                         /\ argv[2] = <<"-", "p">>
                         /\ ParseInt(argv[3]) = patch.level.v
                         /\ argv[4] = <<"-", "i">>
                         /\ Len(opened) = 1 /\ argv[5] = opened[1].arg[1]
                         /\ IsLocal => argv[5] = patch.path.v

\* An apply at a two-digit level that invoked the tool.
C10_Witness ==
    /\ IsPatch /\ call.op = "apply" /\ patch.level.v >= 10
    /\ EventsOf({"_patch"}) # <<>>

\* This step is an apply call: the last call becomes an apply, or an apply
\* with other arguments.
ApplyStep ==
    /\ IsPatch /\ call'.op = "apply"
    /\ (call.op # "apply" \/ call.args # call'.args)
\* The number of digest computations among the events of a call.
Md5Count(c) == Len(SelectSeq(c.events, LAMBDA e : e.ev = "md5"))
\* The digest text of the bytes a call read (the call has read some).
HashRead(c) ==
    LET reads == SelectSeq(c.events, LAMBDA e : e.ev = "read")
    IN  PyStr(Lower(b32encode_md5(reads[Len(reads)].arg[2])))
HasRead(c) == \E i \in DOMAIN c.events : c.events[i].ev = "read"

\* C11 (as claimed): over the lifetime of a Patch, whatever file_hash and
\* apply calls are made on it, the digest of its content is computed at
\* most once.
C11_DigestAtMostOnce ==
    IsPatch => digests <= 1

\* C11 (amended): a file_hash read computes the digest only when nothing is
\* cached, at most once, and leaves a value cached when it does, so reads
\* alone compute it at most once; an apply computes it at most once per call,
\* cached or not.
C11_DigestOnceUnlessApplied ==
    [][/\ FileHashStep
          => /\ Md5Count(call') <= 1
             /\ Truthy(patch._file_hash) => Md5Count(call') = 0
             /\ Md5Count(call') = 1 => Truthy(patch'._file_hash)
       /\ ApplyStep => Md5Count(call') <= 1]_vars

\* A file_hash read answered from the cache on a Patch whose digest has been
\* computed twice (a read or an apply, then an apply).
C11_Witness ==
    /\ IsPatch /\ digests >= 2
    /\ call.op = "file_hash" /\ call.raised.type = "None" /\ Md5Count(call) = 0

\* C12 (as claimed): an apply call performs no directory change and leaves
\* the working directory where the caller had set it.
C12_ApplyLeavesCwd ==
    [][ApplyStep
        => /\ cwd' = cwd
           /\ \A i \in DOMAIN call'.events : call'.events[i].ev # "chdir"]_vars

\* C12 (amended): an apply call changes directory itself, once and before
\* anything else, to the source tree of the stage it was given; after the
\* call, returned or raised, that is the working directory.
C12_ApplyEntersSource ==
    [][ApplyStep
        => /\ call'.events # <<>>
           /\ call'.events[1].ev = "chdir"
           /\ call'.events[1].arg = <<call'.args[1].source_path>>
           /\ Len(SelectSeq(call'.events, LAMBDA e : e.ev = "chdir")) = 1
           /\ cwd' = call'.args[1].source_path]_vars

\* An apply has run and the process is in the stage's source tree.
C12_Witness ==
    /\ IsPatch /\ call.op = "apply"
    /\ call.events[1].ev = "chdir"
    /\ cwd = call.args[1].source_path

\* C13: no step taken while a Patch exists (a file_hash read or an apply
\* call, returning or raising, or a change around it) changes its pkg_name,
\* path_or_url, path, url or level; only _file_hash may change.
C13_OnlyCacheMutable ==
    [][(IsPatch /\ patch'.t = "Patch")
        => /\ patch'.pkg_name = patch.pkg_name
           /\ patch'.path_or_url = patch.path_or_url
           /\ patch'.path = patch.path
           /\ patch'.url = patch.url
           /\ patch'.level.t = patch.level.t
           /\ patch'.level = patch.level]_vars

\* A Patch whose cache an apply has filled although the tool then failed.
C13_Witness ==
    /\ IsPatch /\ call.op = "apply" /\ call.raised.type = "ProcessError"
    /\ IsSet(patch._file_hash)

\* This step is a file_hash read or an apply call: the last call becomes
\* one, or one with other arguments.
CallStep ==
    /\ IsPatch /\ call'.op \in {"file_hash", "apply"}
    /\ (call.op # call'.op \/ call.args # call'.args)
HasEvent(c, ev) == \E i \in DOMAIN c.events : c.events[i].ev = ev

\* C14: a call on a local Patch that acquires the content is given the path
\* resolved at construction (the package directory joined with the
\* specifier) and opens that path; it makes no Stage and no fetch, nothing
\* happens when the block is left, and no file is removed or rewritten.
C14_LocalAcquisitionIsPassthrough ==
    [][(CallStep /\ IsLocal)
        => /\ fs' = fs
           /\ staged' = {}
           /\ \A i \in DOMAIN call'.events :
                 call'.events[i].ev \notin {"Stage", "fetch", "destroy"}
           /\ patch.path.v = join_path(dirname_for_package_name(patch.pkg_name),
                                       patch.path_or_url)
           /\ HasEvent(call', "get_patch")
                 => /\ HasEvent(call', "__enter__")
                    /\ LET opened == SelectSeq(call'.events, LAMBDA e : e.ev = "open")
                       IN  Len(opened) = 1 /\ opened[1].arg = <<patch.path.v>>
                    /\ call'.events[Len(call'.events)].ev = "__exit__"
                    /\ call'.events[Len(call'.events) - 1].ev
                           \in {"open", "md5", "_patch"}]_vars

\* A local Patch applied successfully whose file is still in place.
C14_Witness ==
    /\ IsLocal /\ call.op = "apply" /\ call.raised.type = "None"
    /\ isfile(fs, patch.path.v)

\* The call acquired the content and read it: the block was entered and the
\* open did not fail.
AcquiredAndRead(c) == HasEvent(c, "__enter__") /\ c.raised.type # "IOError"

\* C15: an apply call that acquired and read the content computes the digest
\* once, whatever was cached before, and leaves cached the digest text of the
\* bytes the file held during the call; a file_hash read that follows that
\* apply returns this value.
C15_ApplyRefreshesHash ==
    [][/\ (ApplyStep /\ AcquiredAndRead(call'))
          => /\ Md5Count(call') = 1
             /\ HasRead(call')
             /\ isfile(fs, patch.path.v)
             /\ patch'._file_hash = PyStr(Lower(b32encode_md5(fs[patch.path.v])))
             /\ patch'._file_hash = HashRead(call')
       /\ (FileHashStep /\ call.op = "apply" /\ AcquiredAndRead(call))
          => /\ call'.raised.type = "None"
             /\ call'.ret = HashRead(call)
             /\ call'.ret = patch._file_hash]_vars

\* An apply has left its digest cached on a Patch that had been hashed before.
C15_Witness ==
    /\ IsPatch /\ call.op = "apply" /\ AcquiredAndRead(call) /\ digests >= 2
    /\ patch._file_hash = HashRead(call)

\* C16: in a file_hash read and in an apply call, every open and read of the
\* acquired path and every tool invocation taking it happens after the
\* `with` block was entered and before it is left (and before any staging
\* area behind the path is destroyed).
C16_PathUsedInsideScope ==
    (IsPatch /\ call.op \in {"file_hash", "apply"})
        => \A i \in DOMAIN call.events :
              call.events[i].ev \in {"open", "read", "_patch"}
                  => /\ \E j \in 1..(i - 1) : call.events[j].ev = "__enter__"
                     /\ \A k \in 1..(i - 1) :
                           call.events[k].ev \notin {"__exit__", "destroy"}
                     /\ \E k \in (i + 1)..Len(call.events) :
                           call.events[k].ev = "__exit__"

\* An apply that read the file and ran the tool, and then left the block.
C16_Witness ==
    /\ IsPatch /\ call.op = "apply"
    /\ HasEvent(call, "read") /\ HasEvent(call, "_patch")
    /\ call.events[Len(call.events)].ev = "__exit__"

\* C17 (as claimed): every tool invocation of an apply call passes -N.
C17_ToolGetsDashN ==
    (IsPatch /\ call.op = "apply")
        => \A i \in DOMAIN call.events :
              call.events[i].ev = "_patch"
                  => \E k \in DOMAIN call.events[i].arg[1] :
                        call.events[i].arg[1][k] = <<"-", "N">>

\* C18: within an apply call the tool is invoked only after the block was
\* entered and the digest computed in that call; a call whose acquisition or
\* read failed invokes the tool zero times.
C18_ToolAfterAcquireAndHash ==
    (IsPatch /\ call.op = "apply")
        => /\ \A i \in DOMAIN call.events :
                 call.events[i].ev = "_patch"
                     => /\ \E j \in 1..(i - 1) : call.events[j].ev = "__enter__"
                        /\ \E j \in 1..(i - 1) : call.events[j].ev = "md5"
           /\ (~HasEvent(call, "__enter__") \/ ~HasEvent(call, "md5")
               \/ call.raised.type \in {"NameError", "IOError", "FetchError"})
                 => ~HasEvent(call, "_patch")

\* An apply whose read failed (the file had been removed) and which did not
\* invoke the tool.
C18_Witness ==
    /\ IsPatch /\ call.op = "apply" /\ call.raised.type = "IOError"
    /\ HasEvent(call, "__enter__") /\ ~HasEvent(call, "_patch")

\* C19: an apply call that fails in the tool has read and hashed the content
\* and leaves that digest cached: the Patch after the call differs from the
\* Patch before it whenever the cache was empty or held another value.
C19_FailedApplyKeepsNewHash ==
    [][(ApplyStep /\ HasEvent(call', "_patch") /\ call'.raised.type # "None")
        => /\ HasRead(call')
           /\ patch'._file_hash = HashRead(call')
           /\ (patch._file_hash # HashRead(call')) => patch' # patch]_vars

\* An apply failed in the tool on a Patch never hashed before, and its digest
\* is cached.
C19_Witness ==
    /\ IsPatch /\ call.op = "apply" /\ call.raised.type = "ProcessError"
    /\ digests = 1 /\ HasRead(call) /\ patch._file_hash = HashRead(call)

====
